---- MODULE Spec2Model ----
(***************************************************************************)
(* Model of the OpenSearch authorized-principal resources of               *)
(* internal/service/opensearch.                                            *)
(*                                                                         *)
(* authorized_principal.go holds two drafts of the same resource           *)
(* (lines 1-107 and lines 108-254); vpc_endpoint_authorized_principal.go   *)
(* holds a third variant of which only Create is written.  The variable    *)
(* impl says which of the three the resource instance d runs.              *)
(*                                                                         *)
(* Every lifecycle handler is one action.  The replies of the remote       *)
(* service and the statuses the settle-wait polls are the inputs of the    *)
(* action; the calls the handler made, in order, are kept in last.calls.   *)
(***************************************************************************)
EXTENDS Integers, Sequences, FiniteSets, TLC

VARIABLES impl, cfg, id, domains, remote, granted, last, prev

vars == <<impl, cfg, id, domains, remote, granted, last, prev>>

\* ------------------------------------------------------------------------
\* Bounds and value sets
\* ------------------------------------------------------------------------

\* number of status polls that fit into the settle-wait timeout
MaxPolls == 2

Impls == {"draft1", "draft2", "vpc"}

Domains == {"logs-prod"}

Accounts == {"123456789012", "999999999999"}

PollStatus == {"Processing", "Active", "PollError"}

Principal(account) == [Principal |-> account, PrincipalType |-> "ACCOUNT"]

NoFind == [principals |-> <<>>, err |-> "nil"]

\* ------------------------------------------------------------------------
\* Pure helpers
\* ------------------------------------------------------------------------

\* the identifier: "authorized-principal-" + principal + "-" + type + "-" + domain
DeriveId(principal, principalType, domainName) ==
    "authorized-principal-" \o principal \o "-" \o principalType \o "-" \o domainName

RECURSIVE FirstMatch(_, _, _)
\* the loop of FindAuthorizedPrincipal: the first entry whose derived
\* identifier equals ident, as a sequence of zero or one entries
FirstMatch(list, domainName, ident) ==
    IF list = <<>> THEN <<>>
    ELSE IF ident = DeriveId(Head(list).Principal, Head(list).PrincipalType, domainName)
         THEN <<Head(list)>>
         ELSE FirstMatch(Tail(list), domainName, ident)

\* draft 1: list, then filter locally by derived identifier
FindAuthorizedPrincipal(listOut, domainName, ident) ==
    IF listOut.err # "nil"
    THEN [principals |-> <<>>, err |-> listOut.err]
    ELSE [principals |-> FirstMatch(listOut.list, domainName, ident), err |-> "nil"]

\* draft 2: list; not-found code becomes a NotFoundError, an empty list an
\* EmptyResultError, otherwise the whole list is returned (ident is unused)
FindAuthorizedPrincipals(listOut, domainName, ident) ==
    IF listOut.err = "ResourceNotFoundException"
    THEN [principals |-> <<>>, err |-> "NotFoundError"]
    ELSE IF listOut.err # "nil"
    THEN [principals |-> <<>>, err |-> listOut.err]
    ELSE IF Len(listOut.list) = 0
    THEN [principals |-> <<>>, err |-> "EmptyResultError"]
    ELSE [principals |-> listOut.list, err |-> "nil"]

\* tfresource.NotFound: the error is of the not-found class
NotFound(err) == err \in {"NotFoundError", "EmptyResultError"}

RECURSIVE Settle(_)
\* the settle-wait state machine: Processing until a poll reports Active
\* (success) or fails (Failed); running out of polls is the timeout (Failed)
Settle(polls) ==
    IF polls = <<>> THEN "Failed"
    ELSE IF Head(polls) = "Active" THEN "Active"
    ELSE IF Head(polls) = "PollError" THEN "Failed"
    ELSE Settle(Tail(polls))

\* waitForDomainUpdate returns an error exactly when the wait ends Failed
waitForDomainUpdate(polls) ==
    IF Settle(polls) = "Active" THEN "nil" ELSE "SettleError"

\* ------------------------------------------------------------------------
\* The remote service
\* ------------------------------------------------------------------------

InList(list, account) == \E i \in 1..Len(list) : list[i].Principal = account

RECURSIVE Without(_, _)
Without(list, account) ==
    IF list = <<>> THEN <<>>
    ELSE IF Head(list).Principal = account THEN Without(Tail(list), account)
    ELSE <<Head(list)>> \o Without(Tail(list), account)

\* replies the service can give to an authorize call
AuthorizeReplies(dom) ==
    IF dom \in domains THEN {"nil", "InternalException"}
    ELSE {"ResourceNotFoundException"}

\* the list after an accepted authorize: repeating an authorization adds nothing
AuthorizeVpcEndpointAccess(list, account) ==
    IF InList(list, account) THEN list ELSE Append(list, Principal(account))

\* replies the service can give to a revoke call; revoking a principal that
\* is not authorized is either a no-op or reported as absent
RevokeReplies(dom, account) ==
    IF dom \notin domains THEN {"ResourceNotFoundException"}
    ELSE IF InList(remote[dom], account) THEN {"nil", "InternalException"}
    ELSE {"nil", "ResourceNotFoundException", "InternalException"}

RevokeVpcEndpointAccess(list, account) == Without(list, account)

\* replies the service can give to a list call
ListReplies(dom) ==
    IF dom \in domains THEN {"nil", "InternalException"}
    ELSE {"ResourceNotFoundException"}

ListVpcEndpointAccess(list, reply) ==
    [err |-> reply, list |-> IF reply = "nil" THEN list ELSE <<>>]

Call(name, err) == [call |-> name, err |-> err]

\* ------------------------------------------------------------------------
\* The lifecycle handlers, as functions of the resource data and of the
\* replies they receive.  list is the remote list of the domain before the
\* handler runs; the result carries the list after it.
\* ------------------------------------------------------------------------

Outcome(newId, err, calls, found, out, list) ==
    [id |-> newId, err |-> err, calls |-> calls, found |-> found,
     out |-> out, list |-> list]

\* draft 1 of Read: the result of the find and its error are dropped
resourceAuthorizedPrincipalRead_draft1(isNew, domainName, curId, listOut) ==
    LET f == FindAuthorizedPrincipal(listOut, domainName, curId)
    IN  [id |-> curId, err |-> "nil", found |-> f, out |-> <<>>]

\* draft 2 of Read; out is the value handed to d.Set("authorized_principals")
resourceAuthorizedPrincipalRead(isNew, domainName, curId, listOut) ==
    LET f == FindAuthorizedPrincipals(listOut, domainName, curId)
    IN  IF ~isNew /\ ~NotFound(f.err)
        THEN [id |-> "", err |-> "nil", found |-> f, out |-> <<>>]
        ELSE IF f.err # "nil"
        THEN [id |-> curId, err |-> f.err, found |-> f, out |-> <<>>]
        ELSE [id |-> curId, err |-> "nil", found |-> f, out |-> f.principals]

\* the Read that a draft's resource table and its Upsert refer to
ReadWithoutTimeout(im, isNew, domainName, curId, listOut) ==
    IF im = "draft1"
    THEN resourceAuthorizedPrincipalRead_draft1(isNew, domainName, curId, listOut)
    ELSE resourceAuthorizedPrincipalRead(isNew, domainName, curId, listOut)

\* Upsert that goes on to the Read although the settle-wait failed
Upsert_IgnoresSettleError(im, isNew, domainName, account, curId, authReply, polls, listReply, list) ==
    IF authReply # "nil"
    THEN Outcome(curId, authReply, <<Call("authorize", authReply)>>, NoFind, <<>>, list)
    ELSE
      LET output == Principal(account)
          list1  == AuthorizeVpcEndpointAccess(list, account)
          newId  == DeriveId(output.Principal, output.PrincipalType, domainName)
          w      == waitForDomainUpdate(polls)
          r      == ReadWithoutTimeout(im, isNew, domainName, newId,
                                       ListVpcEndpointAccess(list1, listReply))
      IN  Outcome(r.id, r.err,
                  <<Call("authorize", "nil"), Call("wait", w), Call("list", listReply)>>,
                  r.found, r.out, list1)

\* Upsert that sets the identifier before it looks at the authorize error
Upsert_SetsIdBeforeErrorCheck(im, isNew, domainName, account, curId, authReply, polls, listReply, list) ==
    LET newId == DeriveId(account, "ACCOUNT", domainName)
    IN  IF authReply # "nil"
        THEN Outcome(newId, authReply, <<Call("authorize", authReply)>>, NoFind, <<>>, list)
        ELSE
          LET list1 == AuthorizeVpcEndpointAccess(list, account)
              w     == waitForDomainUpdate(polls)
          IN  IF w # "nil"
              THEN Outcome(newId, w, <<Call("authorize", "nil"), Call("wait", w)>>,
                           NoFind, <<>>, list1)
              ELSE
                LET r == ReadWithoutTimeout(im, isNew, domainName, newId,
                                            ListVpcEndpointAccess(list1, listReply))
                IN  Outcome(r.id, r.err,
                            <<Call("authorize", "nil"), Call("wait", "nil"),
                              Call("list", listReply)>>,
                            r.found, r.out, list1)

\* Create and Update of both drafts
resourceAuthorizedPrincipalUpsert(im, isNew, domainName, account, curId, authReply, polls, listReply, list) ==
    IF authReply # "nil"
    THEN Outcome(curId, authReply, <<Call("authorize", authReply)>>, NoFind, <<>>, list)
    ELSE
      LET output == Principal(account)
          list1  == AuthorizeVpcEndpointAccess(list, account)
          newId  == DeriveId(output.Principal, output.PrincipalType, domainName)
          w      == waitForDomainUpdate(polls)
      IN  IF w # "nil"
          THEN Outcome(newId, w, <<Call("authorize", "nil"), Call("wait", w)>>,
                       NoFind, <<>>, list1)
          ELSE
            LET r == ReadWithoutTimeout(im, isNew, domainName, newId,
                                        ListVpcEndpointAccess(list1, listReply))
            IN  Outcome(r.id, r.err,
                        <<Call("authorize", "nil"), Call("wait", "nil"),
                          Call("list", listReply)>>,
                        r.found, r.out, list1)

\* Create of the VPC-endpoint variant: the identifier is the Acount field of
\* the reply, a field the reply does not have (acount is what it yields);
\* its wait, waitForVpcEndpointAuthorizedPrincipalCreated, is the settle-wait
resourceVpcEndpointAuthorizedPrincipalCreate(domainName, account, curId, authReply, polls, acount, list) ==
    IF authReply # "nil"
    THEN Outcome(curId, authReply, <<Call("authorize", authReply)>>, NoFind, <<>>, list)
    ELSE
      LET list1 == AuthorizeVpcEndpointAccess(list, account)
          w     == waitForDomainUpdate(polls)
      IN  IF w # "nil"
          THEN Outcome(acount, w, <<Call("authorize", "nil"), Call("wait", w)>>,
                       NoFind, <<>>, list1)
          ELSE Outcome(acount, "nil", <<Call("authorize", "nil"), Call("wait", "nil")>>,
                       NoFind, <<>>, list1)

\* Delete
resourceAuthorizedPrincipalDelete(domainName, account, curId, revokeReply, polls, list) ==
    IF revokeReply # "nil"
    THEN Outcome(curId, revokeReply, <<Call("revoke", revokeReply)>>, NoFind, <<>>, list)
    ELSE
      LET list1 == RevokeVpcEndpointAccess(list, account)
          w     == waitForDomainUpdate(polls)
      IN  IF w # "nil"
          THEN Outcome(curId, w, <<Call("revoke", "nil"), Call("wait", w)>>,
                       NoFind, <<>>, list1)
          ELSE Outcome(curId, "nil", <<Call("revoke", "nil"), Call("wait", "nil")>>,
                       NoFind, <<>>, list1)

\* ------------------------------------------------------------------------
\* State
\* ------------------------------------------------------------------------

Config == [domain_name : Domains, account : Accounts]

Idle == [op |-> "None", isNew |-> FALSE, err |-> "nil", calls |-> <<>>,
         found |-> NoFind, out |-> <<>>, idBefore |-> "", listBefore |-> <<>>,
         cfgBefore |-> [domain_name |-> "logs-prod", account |-> "123456789012"]]

Drifted == [Idle EXCEPT !.op = "Drift"]

\* what is remembered of the operation before the last one
Summary(l) == [op |-> l.op, err |-> l.err]

Record(op, isNew, c, r) ==
    [op |-> op, isNew |-> isNew, err |-> r.err, calls |-> r.calls,
     found |-> r.found, out |-> r.out, idBefore |-> id,
     listBefore |-> remote[c.domain_name], cfgBefore |-> cfg]

Init ==
    /\ impl \in Impls
    /\ cfg \in Config
    /\ id = ""
    /\ domains = {"logs-prod"}
    /\ remote = [d \in Domains |-> <<>>]
    /\ granted = {}
    /\ last = Idle
    /\ prev = Summary(Idle)

Polls == [1..MaxPolls -> PollStatus]

Accepted(r) == r.calls[1].err = "nil"

\* Apply hands a resource without identifier to Create, marked as new
Create ==
    /\ id = ""
    /\ \E authReply \in AuthorizeReplies(cfg.domain_name), polls \in Polls,
          listReply \in ListReplies(cfg.domain_name),
          acount \in (IF impl = "vpc" THEN {"", cfg.account} ELSE {""}) :
         LET dn == cfg.domain_name
             r  == IF impl = "vpc"
                   THEN resourceVpcEndpointAuthorizedPrincipalCreate(
                            dn, cfg.account, id, authReply, polls, acount, remote[dn])
                   ELSE resourceAuthorizedPrincipalUpsert(
                            impl, TRUE, dn, cfg.account, id, authReply, polls,
                            listReply, remote[dn])
         IN  /\ id' = r.id
             /\ remote' = [remote EXCEPT ![dn] = r.list]
             /\ granted' = IF Accepted(r) THEN granted \cup {<<dn, cfg.account>>}
                           ELSE granted
             /\ last' = Record("Create", TRUE, cfg, r)
    /\ prev' = Summary(last)
    /\ UNCHANGED <<impl, cfg, domains>>

\* Apply hands a resource that has an identifier to Update; the schema
\* forces no replacement, so a changed domain_name or account is an Update
Update ==
    /\ id # ""
    /\ impl # "vpc"
    /\ \E c \in Config :
         \E authReply \in AuthorizeReplies(c.domain_name), polls \in Polls,
            listReply \in ListReplies(c.domain_name) :
           LET dn == c.domain_name
               r  == resourceAuthorizedPrincipalUpsert(
                         impl, FALSE, dn, c.account, id, authReply, polls,
                         listReply, remote[dn])
           IN  /\ cfg' = c
               /\ id' = r.id
               /\ remote' = [remote EXCEPT ![dn] = r.list]
               /\ granted' = IF Accepted(r) THEN granted \cup {<<dn, c.account>>}
                             ELSE granted
               /\ last' = Record("Update", FALSE, c, r)
    /\ prev' = Summary(last)
    /\ UNCHANGED <<impl, domains>>

\* refresh of a resource that has an identifier
Read ==
    /\ id # ""
    /\ impl # "vpc"
    /\ \E listReply \in ListReplies(cfg.domain_name) :
         LET dn == cfg.domain_name
             r  == ReadWithoutTimeout(impl, FALSE, dn, id,
                                      ListVpcEndpointAccess(remote[dn], listReply))
         IN  /\ id' = r.id
             /\ last' = Record("Read", FALSE, cfg,
                               Outcome(r.id, r.err, <<Call("list", listReply)>>,
                                       r.found, r.out, remote[dn]))
    /\ prev' = Summary(last)
    /\ UNCHANGED <<impl, cfg, domains, remote, granted>>

\* destroy; Apply drops the identifier after a Delete that returned no error
Delete ==
    /\ impl # "vpc"
    /\ \E revokeReply \in RevokeReplies(cfg.domain_name, cfg.account), polls \in Polls :
         LET dn == cfg.domain_name
             r  == resourceAuthorizedPrincipalDelete(
                       dn, cfg.account, id, revokeReply, polls, remote[dn])
         IN  /\ id' = IF r.err = "nil" THEN "" ELSE r.id
             /\ remote' = [remote EXCEPT ![dn] = r.list]
             /\ granted' = IF Accepted(r) THEN granted \ {<<dn, cfg.account>>}
                           ELSE granted
             /\ last' = Record("Delete", FALSE, cfg, r)
    /\ prev' = Summary(last)
    /\ UNCHANGED <<impl, cfg, domains>>

\* ------------------------------------------------------------------------
\* The environment, between two operations of the resource
\* ------------------------------------------------------------------------

\* The remote service is the source of truth and is shared: these steps are
\* not code of the resource.
\* somebody else authorizes or revokes a principal on a domain
OtherAuthorize ==
    /\ \E dom \in domains, a \in Accounts :
         /\ ~InList(remote[dom], a)
         /\ remote' = [remote EXCEPT ![dom] = Append(@, Principal(a))]
    /\ last' = Drifted
    /\ prev' = Summary(last)
    /\ UNCHANGED <<impl, cfg, id, domains, granted>>

OtherRevoke ==
    /\ \E dom \in domains, a \in Accounts :
         /\ InList(remote[dom], a)
         /\ remote' = [remote EXCEPT ![dom] = Without(@, a)]
    /\ last' = Drifted
    /\ prev' = Summary(last)
    /\ UNCHANGED <<impl, cfg, id, domains, granted>>

\* a domain is deleted, with its list, or created
DomainDeleted ==
    /\ \E dom \in domains :
         /\ domains' = domains \ {dom}
         /\ remote' = [remote EXCEPT ![dom] = <<>>]
    /\ last' = Drifted
    /\ prev' = Summary(last)
    /\ UNCHANGED <<impl, cfg, id, granted>>

DomainCreated ==
    /\ \E dom \in Domains \ domains : domains' = domains \cup {dom}
    /\ last' = Drifted
    /\ prev' = Summary(last)
    /\ UNCHANGED <<impl, cfg, id, remote, granted>>

Next ==
    \/ Create
    \/ Update
    \/ Read
    \/ Delete
    \/ OtherAuthorize
    \/ OtherRevoke
    \/ DomainDeleted
    \/ DomainCreated

Spec == Init /\ [][Next]_vars

TypeOK ==
    /\ impl \in Impls
    /\ cfg \in Config
    /\ domains \subseteq Domains
    /\ \A d \in Domains : d \notin domains => remote[d] = <<>>
    /\ last.op \in {"None", "Drift", "Create", "Update", "Read", "Delete"}

\* ------------------------------------------------------------------------
\* Properties
\* ------------------------------------------------------------------------

Lifecycle == {"Create", "Update", "Delete"}

HasCall(name) == \E i \in 1..Len(last.calls) : last.calls[i].call = name

ReplyOf(name) ==
    LET i == CHOOSE j \in 1..Len(last.calls) : last.calls[j].call = name
    IN  last.calls[i].err

AllCallsOk == \A i \in 1..Len(last.calls) : last.calls[i].err = "nil"

Matches(p, ident) == DeriveId(p.Principal, p.PrincipalType, cfg.domain_name) = ident

Entries(list, account) == Cardinality({i \in 1..Len(list) : list[i].Principal = account})

\* C1: a Read that directly follows a successful Create, its list call
\* answered, returns no error, keeps the identifier Create recorded and
\* yields the principal of the request.
C1_ReadAfterCreate ==
    (last.op = "Read" /\ prev.op = "Create" /\ prev.err = "nil" /\ AllCallsOk)
    => /\ last.err = "nil"
       /\ id = last.idBefore
       /\ \E i \in 1..Len(last.found.principals) :
            /\ last.found.principals[i].Principal = cfg.account
            /\ Matches(last.found.principals[i], last.idBefore)

\* C2: on an existing domain the find of Read returns nothing and no error
\* when no entry of the list derives the supplied identifier, and it never
\* returns an entry whose derived identifier differs from the supplied one.
C2_ReadAbsentUnlessMatch ==
    (last.op = "Read" /\ AllCallsOk)
    => /\ (\A i \in 1..Len(last.listBefore) : ~Matches(last.listBefore[i], last.idBefore))
            => (last.found.principals = <<>> /\ last.found.err = "nil")
       /\ \A i \in 1..Len(last.found.principals) :
            Matches(last.found.principals[i], last.idBefore)

\* C3: Create, Update and Delete return success only after an accepted
\* mutating call followed by a settle-wait that ended Active; a failed
\* settle-wait is an error of the operation; a rejected mutating call is an
\* error and no settle-wait is started after it.
C3_SuccessOnlyAfterSettle ==
    last.op \in Lifecycle
    => /\ last.calls[1].call = (IF last.op = "Delete" THEN "revoke" ELSE "authorize")
       /\ last.err = "nil"
            => (Len(last.calls) >= 2 /\ last.calls[1].err = "nil"
                /\ last.calls[2] = Call("wait", "nil"))
       /\ (HasCall("wait") /\ ReplyOf("wait") # "nil") => last.err # "nil"
       /\ last.calls[1].err # "nil" => (last.err # "nil" /\ ~HasCall("wait"))
       /\ HasCall("wait") => (last.calls[1].err = "nil" /\ last.calls[2].call = "wait")

C3_Witness ==
    /\ last.op = "Create"
    /\ last.err = "nil"
    /\ last.calls[2] = Call("wait", "nil")
    /\ InList(remote[cfg.domain_name], cfg.account)

\* C4: a Delete that follows a successful Delete succeeds, and a Delete whose
\* revoke call reports the principal absent from an existing domain succeeds.
C4_DeleteIdempotent ==
    last.op = "Delete"
    => /\ (prev.op = "Delete" /\ prev.err = "nil"
           /\ ReplyOf("revoke") # "InternalException"
           /\ (HasCall("wait") => ReplyOf("wait") = "nil"))
            => last.err = "nil"
       /\ (ReplyOf("revoke") = "ResourceNotFoundException"
           /\ cfg.domain_name \in domains)
            => last.err = "nil"

\* C5: after successful operations the accounts this resource authorized and
\* did not revoke are exactly the declared account (Create, Update) or none
\* (Delete).
C5_Converged ==
    (last.op \in Lifecycle /\ last.err = "nil"
     /\ prev.op \in Lifecycle \cup {"None"} /\ prev.err = "nil")
    => granted = (IF last.op = "Delete" THEN {}
                  ELSE {<<cfg.domain_name, cfg.account>>})

\* C6: Create/Update repeated with the same request on an authorized pairing,
\* all remote calls answered, returns no error, keeps the identifier of the
\* first invocation and leaves one entry for the principal.
C6_UpsertIdempotent ==
    (/\ last.op \in {"Create", "Update"}
     /\ prev.op \in {"Create", "Update"} /\ prev.err = "nil"
     /\ last.cfgBefore = cfg
     /\ InList(last.listBefore, cfg.account)
     /\ last.idBefore = DeriveId(cfg.account, "ACCOUNT", cfg.domain_name)
     /\ AllCallsOk)
    => /\ last.err = "nil"
       /\ id = last.idBefore
       /\ Entries(remote[cfg.domain_name], cfg.account) = 1

\* C7: an operation one of whose remote calls or whose settle-wait failed
\* returns an error, but for a Read whose list call reported not-found.
C7_ErrorsReturned ==
    (/\ last.op \in Lifecycle \cup {"Read"}
     /\ \E i \in 1..Len(last.calls) :
          /\ last.calls[i].err # "nil"
          /\ ~(last.op = "Read" /\ last.calls[i].err = "ResourceNotFoundException"))
    => last.err # "nil"

\* C8: after a Create whose authorize call was accepted the identifier is
\* authorized-principal-{principal}-{principal_type}-{domain_name} of the
\* returned principal and the requested domain.
C8_CreateRecordsDerivedId ==
    (last.op = "Create" /\ Accepted(last))
    => id = DeriveId(Principal(cfg.account).Principal,
                     Principal(cfg.account).PrincipalType, cfg.domain_name)

\* C9: a refresh whose list call reports not-found drops the identifier and
\* returns no error; a refresh whose list call returns the principal leaves
\* the identifier as it was.
C9_RefreshDropsOnNotFoundOnly ==
    last.op = "Read"
    => /\ ReplyOf("list") = "ResourceNotFoundException"
            => (id = "" /\ last.err = "nil")
       /\ (ReplyOf("list") = "nil"
           /\ \E i \in 1..Len(last.listBefore) : Matches(last.listBefore[i], last.idBefore))
            => id = last.idBefore

====
